---- MODULE Spec2Model ----
(***************************************************************************)
(* Promo-calendar backend: the public promotion listing with its Redis     *)
(* read-through cache, the public submission, the administrative writes    *)
(* and the announcement listing, as the handlers of backend/server.js      *)
(* drive them.  Two revisions of the handlers are modelled and the         *)
(* variable rev picks one for a whole run: "A" is server.js 210-508 (a     *)
(* collection of announcements), "B" the revision that spreads req.body     *)
(* into its documents (a singleton announcement).  The promotion handlers  *)
(* of server.js 1-209 are those of "A" without DELETE, so its runs are the *)
(* runs of "A" in which no DELETE is issued.                               *)
(*                                                                         *)
(* A handler is cut at each await: one action is the external call (Redis, *)
(* MongoDB, ImgBB) together with the synchronous code that follows it up   *)
(* to the next await or to the response.  Steps of different requests      *)
(* interleave freely, and the clock may advance between any two steps.     *)
(*                                                                         *)
(* Spec        the promotion routes, interleaved at their awaits.          *)
(* SpecStocked status updates alone, interleaved, over a stored Promotion. *)
(* SpecAdmin   all promotion and admin routes with authenticateAdmin, each *)
(*             request served on its own, on documents with createdAt.     *)
(* SpecAnn     the announcement routes of both revisions.                  *)
(***************************************************************************)
EXTENDS Integers, FiniteSets, Sequences, TLC

\* ---------------------------------------------------------------- bounds
MaxPromos == 2      \* documents ever inserted into the Promotion collection
NumSlots  == 2      \* requests in flight at the same time
MaxReqs   == 3      \* requests accepted in one run
MaxWrites == 2      \* of which requests that write to the store
TickLen   == 300    \* seconds the clock advances in one Tick
DayLen    == 600    \* seconds in a (scaled) calendar day
MaxNow    == 900    \* the clock stops here
MaxAnns   == 2      \* documents ever inserted into the Announcement collection

\* ------------------------------------------------------ program constants
TTL == 300          \* redisClient.setEx(cacheKey, 300, ...)

Revs  == {"A", "B"}
Slots == 1..NumSlots
Ids   == 1..MaxPromos

StatusEnum == {"PENDING", "APPROVED", "REJECTED"}

\* Request inputs.  "" is a missing title, "absent" a body without status.
Titles       == {"", "Sale"}
EditTitles   == {"Deal"}
Dates        == {0, DayLen}
BodyStatuses == {"absent", "APPROVED"}
PutStatuses  == StatusEnum \cup {"BOGUS"}
Files        == {"none", "good", "bad"}

Bodies == [title : Titles, start : Dates, end : Dates, status : BodyStatuses]
AdminBodies == [title : Titles, start : Dates, end : Dates,
                status : {"absent", "REJECTED"}]
EditBodies == [title : EditTitles, start : Dates, end : Dates, status : BodyStatuses]

VARIABLES
  rev,        \* the revision of server.js that runs
  now,        \* wall clock, seconds
  promos,     \* Promotion collection: id -> document, DOMAIN = stored ids
  nextId,     \* next identifier MongoDB hands out
  cache,      \* the Redis key: <<>> or <<entry>>
  isOpen,     \* redisClient.isOpen
  reqs,       \* slot -> the request handled there and its position
  last,       \* the response the latest step sent, NoResp if it sent none
  started,    \* requests accepted so far, and how many of them write:
              \* [all |-> .., writes |-> ..]
  ver,        \* history: administrative store writes applied so far
  acked,      \* history: highest ver whose write has answered success
  due,        \* history: no GET /promotions has started since that answer
  resFresh,   \* history: slot -> last instant its query result was the true listing
  cacheFresh, \* history: last instant the cached listing was the true listing
  anns,       \* Announcement collection: id -> document
  annNextId,  \* next identifier MongoDB hands out there
  annLast,    \* the response the latest announcement step sent
  admLast,    \* the response to the latest request served on its own
  puts        \* history: the status updates applied to the store, in order

vars == <<rev, now, promos, nextId, cache, isOpen, reqs, last, started,
          ver, acked, due, resFresh, cacheFresh, anns, annNextId, annLast,
          admLast, puts>>

annVars == <<anns, annNextId, annLast>>

promoVars == <<rev, promos, nextId, cache, isOpen, reqs, last, started,
               ver, acked, due, resFresh, cacheFresh>>

\* ------------------------------------------------------------- time
\* today.setHours(0,0,0,0)
Midnight(t) == t - (t % DayLen)

\* ------------------------------------------------------------- documents
\* A document as JSON.stringify writes it, for the cache and for res.json
\* alike: the schema's fields.
Doc(p) == [title |-> p.title, start |-> p.start, end |-> p.end,
           status |-> p.status]

EmptyBody == [i \in {} |-> 0]

\* The query with a lower bound on start added, as the announcement query has.
PromotionQueryStarted(store, today) ==
  {i \in DOMAIN store : /\ store[i].status = "APPROVED"
                        /\ store[i].end >= today
                        /\ store[i].start <= today}

\* Promotion.find({ status: 'APPROVED', end: { $gte: today } })
PromotionQuery(store, today) ==
  {i \in DOMAIN store : store[i].status = "APPROVED" /\ store[i].end >= today}

FindVisible(store, today) ==
  [i \in PromotionQuery(store, today) |-> Doc(store[i])]

\* Validation with the title no longer required.
ValidatesStatusOnly(doc) == doc.status \in StatusEnum

\* Mongoose validation on save(): title required, status within the enum.
\* (start and end are always supplied by the inputs of this model.)
Validates(doc) == doc.title # "" /\ doc.status \in StatusEnum

\* ------------------------------------------------------------- upload
\* An upload whose failure is swallowed: the handler goes on with some url.
UploadSwallowed(file) == IF file = "none" THEN "none" ELSE "url"

\* if (req.file) imageUrl = await uploadToImgBB(req.file.buffer): not called
\* without a file, else the url ImgBB returns, or the Error it throws.
UploadToImgBB(file) ==
  IF file = "none" THEN "none"
  ELSE IF file = "good" THEN "url"
  ELSE "throws"

\* ------------------------------------------------------------- requests
IdleReq == [kind |-> "none", pc |-> "idle", result |-> EmptyBody,
            evalAt |-> 0, qver |-> 0, need |-> 0, wver |-> 0]

NoResp == [kind |-> "none", status |-> 0, body |-> EmptyBody,
           source |-> "none", cause |-> "none", title |-> "none",
           qver |-> 0, need |-> 0, wver |-> 0,
           hadEntry |-> FALSE, sawOpen |-> FALSE]

Free(s) == reqs[s].pc = "idle"

\* A new request takes the first free slot.
CanStart(s) ==
  /\ Free(s)
  /\ \A t \in Slots : t < s => ~Free(t)
  /\ started.all < MaxReqs

CanStartWrite(s) == CanStart(s) /\ started.writes < MaxWrites

StartRead  == started' = [started EXCEPT !.all = @ + 1]
StartWrite == started' = [started EXCEPT !.all = @ + 1, !.writes = @ + 1]

\* res.json / res.status(..).json: the request in slot s is answered.
Respond(s, r) ==
  /\ last' = r
  /\ reqs' = [reqs EXCEPT ![s] = IdleReq]

\* A rejected promise outside any try/catch: the request is never answered.
Hang(s, kind) ==
  /\ reqs' = [reqs EXCEPT ![s] = [IdleReq EXCEPT !.kind = kind, !.pc = "hung"]]
  /\ last' = NoResp

\* ------------------------------------------------------------- tokens
\* jwt.sign({ role: 'ADMIN' }, JWT_SECRET, { expiresIn: '1h' })
TokenLife == 3600

\* What authenticateAdmin finds in req.headers['authorization'] after
\* split(' ')[1]: nothing, or a token that is signed with JWT_SECRET or not
\* and was issued at iat.
NoToken == [present |-> FALSE, signed |-> FALSE, iat |-> 0]

Tokens == {[present |-> TRUE, signed |-> FALSE, iat |-> 0],
           [present |-> TRUE, signed |-> TRUE,  iat |-> 0 - TokenLife],
           [present |-> TRUE, signed |-> TRUE,  iat |-> 0]}

Headers == {NoToken} \cup Tokens

\* jwt.verify(token, JWT_SECRET, cb): the signature, then the exp claim.
Verifies(tok, t) == tok.signed /\ t < tok.iat + TokenLife

\* A verification that does not look at the exp claim.
AuthenticateNoExpiry(hdr, t) ==
  IF ~hdr.present THEN 401
  ELSE IF ~hdr.signed THEN 403
  ELSE 0

\* authenticateAdmin: the status it answers with, 0 when it calls next().
Authenticate(hdr, t) ==
  IF ~hdr.present THEN 401
  ELSE IF ~Verifies(hdr, t) THEN 403
  ELSE 0

\* The response to a request that is served with no other request in between.
NoAdmResp == [route |-> "none", status |-> 0, hdr |-> NoToken,
              cause |-> "none", file |-> "none", id |-> 0, found |-> FALSE,
              password |-> "none", token |-> NoToken, body |-> <<>>]

\* ------------------------------------------------------------- Init
\* The process has started: redisClient.connect() was called, so isOpen is
\* true until the connection fails (CacheClose).  Init: over an empty
\* collection.
Booted ==
  /\ rev \in Revs
  /\ now = 0
  /\ cache = <<>>
  /\ isOpen = TRUE
  /\ reqs = [s \in Slots |-> IdleReq]
  /\ last = NoResp
  /\ started = [all |-> 0, writes |-> 0]
  /\ ver = 0
  /\ acked = 0
  /\ due = FALSE
  /\ resFresh = [s \in Slots |-> 0]
  /\ cacheFresh = 0
  /\ anns = EmptyBody
  /\ annNextId = 1
  /\ annLast = [kind |-> "none", status |-> 0, body |-> {}]
  /\ admLast = NoAdmResp
  /\ puts = <<>>

Init ==
  /\ Booted
  /\ promos = EmptyBody
  /\ nextId = 1


\* ------------------------------------------------------------- cache
\* A time to live twice as long.
ExpiredLate(e, t) == t > e.setAt + 2 * TTL

\* A key written by setEx(key, 300, v) at setAt is gone once its TTL is over.
Expired(e, t) == t > e.setAt + TTL

Expire(c, t) == IF c # <<>> /\ Expired(c[1], t) THEN <<>> ELSE c

\* ============================================= GET /api/promotions
\* await redisClient.get(cacheKey); on a hit the cached text is the response.
GetCacheRead(s) ==
  /\ CanStart(s)
  /\ StartRead
  /\ due' = FALSE
  /\ LET r == [IdleReq EXCEPT !.kind = "get", !.need = IF due THEN acked ELSE 0]
         a == [NoResp EXCEPT !.kind = "get", !.need = r.need, !.sawOpen = isOpen]
     IN
     IF isOpen
     THEN \E ok \in BOOLEAN :
            IF ~ok
            THEN Respond(s, [a EXCEPT !.status = 500, !.cause = "cache"])
            ELSE IF cache # <<>>
            THEN Respond(s, [a EXCEPT !.status = 200, !.source = "cache",
                                      !.body = cache[1].body,
                                      !.qver = cache[1].qver])
            ELSE /\ reqs' = [reqs EXCEPT ![s] = [r EXCEPT !.pc = "find"]]
                 /\ last' = NoResp
     ELSE /\ reqs' = [reqs EXCEPT ![s] = [r EXCEPT !.pc = "find"]]
          /\ last' = NoResp
  /\ UNCHANGED <<rev, now, promos, nextId, cache, isOpen, ver, acked>>

\* today = new Date(); today.setHours(0,0,0,0); await Promotion.find({...})
GetFind(s) ==
  /\ reqs[s].kind = "get" /\ reqs[s].pc = "find"
  /\ \E ok \in BOOLEAN :
       IF ok
       THEN /\ reqs' = [reqs EXCEPT ![s] =
                          [@ EXCEPT !.pc = "set",
                                    !.result = FindVisible(promos, Midnight(now)),
                                    !.evalAt = now, !.qver = ver]]
            /\ last' = NoResp
       ELSE Respond(s, [NoResp EXCEPT !.kind = "get", !.status = 500,
                                      !.cause = "store", !.need = reqs[s].need])
  /\ UNCHANGED <<rev, now, promos, nextId, cache, isOpen, started, ver, acked, due>>

\* if (redisClient.isOpen) await redisClient.setEx(cacheKey, 300, ...); res.json
GetCacheSet(s) ==
  /\ reqs[s].kind = "get" /\ reqs[s].pc = "set"
  /\ LET q == reqs[s]
         a == [NoResp EXCEPT !.kind = "get", !.need = q.need, !.qver = q.qver,
                             !.sawOpen = isOpen]
     IN
     IF isOpen
     THEN \E ok \in BOOLEAN :
            IF ok
            THEN /\ cache' = <<[body |-> q.result, setAt |-> now,
                                evalAt |-> q.evalAt, qver |-> q.qver,
                                setVer |-> ver]>>
                 /\ Respond(s, [a EXCEPT !.status = 200, !.source = "store",
                                         !.body = q.result])
            ELSE /\ UNCHANGED cache
                 /\ Respond(s, [a EXCEPT !.status = 500, !.cause = "cache"])
     ELSE /\ UNCHANGED cache
          /\ Respond(s, [a EXCEPT !.status = 200, !.source = "store",
                                  !.body = q.result])
  /\ UNCHANGED <<rev, now, promos, nextId, isOpen, started, ver, acked, due>>

\* ============================================= environment
\* The clock advances; Redis drops the key when its time to live is over.
Tick ==
  /\ now + TickLen <= MaxNow
  /\ now' = now + TickLen
  /\ cache' = Expire(cache, now')
  /\ last' = NoResp
  /\ UNCHANGED <<rev, promos, nextId, isOpen, reqs, started, ver, acked, due>>

\* The Redis socket closes; with reconnectStrategy: false it stays closed.
CacheClose ==
  /\ isOpen
  /\ isOpen' = FALSE
  /\ last' = NoResp
  /\ UNCHANGED <<rev, now, promos, nextId, cache, reqs, started, ver, acked, due>>


\* ============================================= creating documents
\* new Promotion({ title, description, start, end, imageUrl }): the status is
\* the schema default.  The revision with the singleton announcement builds
\* the document as new Promotion({ ...req.body, imageUrl }).
NewSubmission(r, body) ==
  [title  |-> body.title, start |-> body.start, end |-> body.end,
   status |-> IF r = "B" /\ body.status # "absent" THEN body.status
              ELSE "PENDING"]

\* status: 'APPROVED' written before ...req.body, so that the body wins.
NewAdminPromotionBodyWins(r, body) ==
  [title |-> body.title, start |-> body.start, end |-> body.end,
   status |-> IF r = "B" /\ body.status # "absent" THEN body.status
              ELSE "APPROVED"]

\* new Promotion({ ..., status: 'APPROVED' }); in the spreading revision
\* status: 'APPROVED' comes after ...req.body.
NewAdminPromotion(r, body) ==
  [title |-> body.title, start |-> body.start, end |-> body.end,
   status |-> "APPROVED"]

\* newPromo.save(): MongoDB assigns the id.
Insert(store, id, doc) ==
  [i \in DOMAIN store \cup {id} |-> IF i = id THEN doc ELSE store[i]]

\* ============================================= POST /api/promotions
\* if (req.file) imageUrl = await uploadToImgBB(req.file.buffer);
\* await newPromo.save(); res.status(201); every failure is answered 400.
\* The upload shares no state with any other request, so it is taken in the
\* step of the save that follows it.
Submit(s) ==
  /\ CanStartWrite(s)
  /\ StartWrite
  /\ \E file \in Files, body \in Bodies, ok \in BOOLEAN :
       LET doc == NewSubmission(rev, body)
           a   == [NoResp EXCEPT !.kind = "submit", !.title = body.title]
       IN
       IF UploadToImgBB(file) = "throws"
       THEN /\ Respond(s, [a EXCEPT !.status = 400, !.cause = "upload"])
            /\ UNCHANGED <<promos, nextId>>
       ELSE IF ~Validates(doc)
       THEN /\ Respond(s, [a EXCEPT !.status = 400, !.cause = "validation"])
            /\ UNCHANGED <<promos, nextId>>
       ELSE IF ~ok
       THEN /\ Respond(s, [a EXCEPT !.status = 400, !.cause = "store"])
            /\ UNCHANGED <<promos, nextId>>
       ELSE /\ nextId <= MaxPromos
            /\ promos' = Insert(promos, nextId, doc)
            /\ nextId' = nextId + 1
            /\ Respond(s, [a EXCEPT !.status = 201])
  /\ UNCHANGED <<rev, now, cache, isOpen, ver, acked, due>>

\* ============================================= administrative writes
AdminWrites == {"create", "status", "edit", "delete"}

SuccessCode(kind) == IF kind \in {"create", "submit"} THEN 201 ELSE 200

\* A handler that forgets the del.
InvalidateKeyKept(c) == c

\* redisClient.del(cacheKey)
InvalidateKey(c) == <<>>

\* if (redisClient.isOpen) await redisClient.del(...); res.json({ message })
Invalidate(s) ==
  /\ reqs[s].kind \in AdminWrites /\ reqs[s].pc = "del"
  /\ LET k == reqs[s].kind
         a == [NoResp EXCEPT !.kind = k, !.status = SuccessCode(k),
                             !.sawOpen = isOpen, !.hadEntry = (cache # <<>>),
                             !.wver = reqs[s].wver]
         Ack == /\ acked' = IF reqs[s].wver > acked THEN reqs[s].wver ELSE acked
                /\ due' = TRUE
     IN
     IF isOpen
     THEN \E ok \in BOOLEAN :
            IF ok
            THEN /\ cache' = InvalidateKey(cache)
                 /\ Respond(s, a)
                 /\ Ack
            ELSE /\ UNCHANGED <<cache, acked, due>>
                 /\ IF rev = "B" /\ k = "status"
                    THEN Hang(s, k)
                    ELSE Respond(s, [a EXCEPT !.status = 500, !.cause = "cache"])
     ELSE /\ UNCHANGED cache
          /\ Respond(s, a)
          /\ Ack
  /\ UNCHANGED <<rev, now, promos, nextId, isOpen, started, ver>>

\* The store write of an administrative handler went through.
Written(s, k) ==
  /\ ver' = ver + 1
  /\ reqs' = [reqs EXCEPT ![s] = [IdleReq EXCEPT !.kind = k, !.pc = "del",
                                                 !.wver = ver + 1]]
  /\ last' = NoResp

\* ---- POST /api/admin/promotions
\* if (req.file) imageUrl = await uploadToImgBB(...); await newPromo.save()
AdminCreate(s) ==
  /\ CanStartWrite(s)
  /\ StartWrite
  /\ \E file \in Files, body \in AdminBodies, ok \in BOOLEAN :
       LET doc == NewAdminPromotion(rev, body)
           a   == [NoResp EXCEPT !.kind = "create", !.title = body.title]
       IN
       IF UploadToImgBB(file) = "throws"
       THEN /\ Respond(s, [a EXCEPT !.status = 500, !.cause = "upload"])
            /\ UNCHANGED <<promos, nextId, ver>>
       ELSE IF ~Validates(doc)
       THEN /\ Respond(s, [a EXCEPT !.status = 500, !.cause = "validation"])
            /\ UNCHANGED <<promos, nextId, ver>>
       ELSE IF ~ok
       THEN /\ Respond(s, [a EXCEPT !.status = 500, !.cause = "store"])
            /\ UNCHANGED <<promos, nextId, ver>>
       ELSE /\ nextId <= MaxPromos
            /\ promos' = Insert(promos, nextId, doc)
            /\ nextId' = nextId + 1
            /\ Written(s, "create")
  /\ UNCHANGED <<rev, now, cache, isOpen, acked, due>>

\* ---- PUT /api/admin/promotions/:id
\* An update that only a PENDING Promotion accepts.
UpdateStatusIfPending(store, id, st) ==
  IF id \in DOMAIN store /\ store[id].status = "PENDING"
  THEN [store EXCEPT ![id] = [@ EXCEPT !.status = st]]
  ELSE store

\* Promotion.findByIdAndUpdate(id, { status }): no validators run on an
\* update, and an id without a document updates nothing.
UpdateStatus(store, id, st) ==
  IF id \in DOMAIN store
  THEN [store EXCEPT ![id] = [@ EXCEPT !.status = st]]
  ELSE store

\* The request for id and status st, whose store call resolves (ok) or not.
PutStatus(s, id, st, ok) ==
  /\ CanStartWrite(s)
  /\ StartWrite
  /\ IF ok
     THEN /\ promos' = UpdateStatus(promos, id, st)
          /\ Written(s, "status")
     ELSE /\ UNCHANGED <<promos, ver>>
          /\ IF rev = "B"
             THEN Hang(s, "status")
             ELSE Respond(s, [NoResp EXCEPT !.kind = "status", !.status = 500,
                                            !.cause = "store"])
  /\ UNCHANGED <<rev, now, nextId, cache, isOpen, acked, due>>

SetStatus(s) ==
  \E id \in Ids, st \in PutStatuses, ok \in BOOLEAN : PutStatus(s, id, st, ok)

\* ---- PUT /api/admin/promotions/:id/edit
\* updateData = { title, description, start, end, color }; the spreading
\* revision takes updateData = { ...req.body }.
UpdateData(r, body) ==
  [title |-> body.title, start |-> body.start, end |-> body.end,
   status |-> IF r = "B" THEN body.status ELSE "absent"]

ApplyEdit(store, id, u) ==
  IF id \in DOMAIN store
  THEN [store EXCEPT ![id] =
          [@ EXCEPT !.title = u.title, !.start = u.start, !.end = u.end,
                    !.status = IF u.status = "absent" THEN @ ELSE u.status]]
  ELSE store

\* if (req.file) updateData.imageUrl = await uploadToImgBB(...);
\* await Promotion.findByIdAndUpdate(req.params.id, updateData)
Edit(s) ==
  /\ CanStartWrite(s)
  /\ StartWrite
  /\ \E file \in Files, id \in Ids, body \in EditBodies, ok \in BOOLEAN :
       IF UploadToImgBB(file) = "throws"
       THEN /\ UNCHANGED <<promos, ver>>
            /\ Respond(s, [NoResp EXCEPT !.kind = "edit", !.status = 500,
                                         !.cause = "upload"])
       ELSE IF ok
       THEN /\ promos' = ApplyEdit(promos, id, UpdateData(rev, body))
            /\ Written(s, "edit")
       ELSE /\ UNCHANGED <<promos, ver>>
            /\ Respond(s, [NoResp EXCEPT !.kind = "edit", !.status = 500,
                                         !.cause = "store"])
  /\ UNCHANGED <<rev, now, nextId, cache, isOpen, acked, due>>

\* ---- DELETE /api/admin/promotions/:id  (server.js 428-436 only)
Remove(store, id) == [i \in DOMAIN store \ {id} |-> store[i]]

Delete(s) ==
  /\ rev = "A"
  /\ CanStartWrite(s)
  /\ StartWrite
  /\ \E id \in Ids, ok \in BOOLEAN :
       IF ok
       THEN /\ promos' = Remove(promos, id)
            /\ Written(s, "delete")
       ELSE /\ UNCHANGED <<promos, ver>>
            /\ Respond(s, [NoResp EXCEPT !.kind = "delete", !.status = 500,
                                         !.cause = "store"])
  /\ UNCHANGED <<rev, now, nextId, cache, isOpen, acked, due>>

\* ============================================= the visibility rule
\* A Promotion is publicly visible at instant t.
Visible(p, t) == p.status = "APPROVED" /\ p.end >= Midnight(t)

VisibleSet(store, t) ==
  [i \in {j \in DOMAIN store : Visible(store[j], t)} |-> Doc(store[i])]

\* ============================================= announcements (revision "A")
AnnDates == {0, TickLen, DayLen}

AnnBodies == [title : Titles, startDate : AnnDates, endDate : AnnDates]

NoAnnResp == [kind |-> "none", status |-> 0, body |-> {}]

\* const today = new Date();
\* Announcement.find({ isActive: true, startDate: { $lte: today },
\*                     endDate: { $gte: today.setHours(0,0,0,0) } })
\* setHours sets the one Date object that $lte already refers to, so both
\* bounds are the midnight of the day when find() runs.
AnnouncementQuery(store, t) ==
  LET today == Midnight(t)
  IN {i \in DOMAIN store :
        /\ store[i].isActive
        /\ store[i].startDate <= today
        /\ store[i].endDate >= today}

\* ---- GET /api/announcement
AnnList ==
  /\ rev = "A"
  /\ \E ok \in BOOLEAN :
       annLast' = IF ok
                  THEN [kind |-> "list", status |-> 200,
                        body |-> AnnouncementQuery(anns, now)]
                  ELSE [kind |-> "list", status |-> 500, body |-> {}]
  /\ UNCHANGED <<anns, annNextId, now>>

\* ---- POST /api/admin/announcements
\* new Announcement({ title, description, startDate, endDate, imageUrl,
\*                    isActive: true }); every failure is answered 500.
AnnCreate ==
  /\ rev = "A"
  /\ \E file \in Files, body \in AnnBodies, ok \in BOOLEAN :
       IF UploadToImgBB(file) = "throws" \/ body.title = "" \/ ~ok
       THEN /\ annLast' = [kind |-> "create", status |-> 500, body |-> {}]
            /\ UNCHANGED <<anns, annNextId>>
       ELSE /\ annNextId <= MaxAnns
            /\ anns' = Insert(anns, annNextId,
                              [isActive |-> TRUE, startDate |-> body.startDate,
                               endDate |-> body.endDate])
            /\ annNextId' = annNextId + 1
            /\ annLast' = [kind |-> "create", status |-> 200, body |-> {}]
  /\ UNCHANGED now

\* ---- DELETE /api/admin/announcements/:id
AnnDelete ==
  /\ rev = "A"
  /\ \E id \in 1..MaxAnns, ok \in BOOLEAN :
       IF ok
       THEN /\ anns' = Remove(anns, id)
            /\ annLast' = [kind |-> "delete", status |-> 200, body |-> {}]
       ELSE /\ UNCHANGED anns
            /\ annLast' = [kind |-> "delete", status |-> 500, body |-> {}]
  /\ UNCHANGED <<annNextId, now>>

\* ============================================= announcement (revision "B")
\* What POST /api/admin/announcement may carry: isActive arrives as text.
AnnUpdates == [title : {"Sale", "Deal"}, isActive : {"true", "false"}]

\* res.json(announcement || { isActive: false })
Placeholder == [isActive |-> FALSE]

\* An insert on every call, as new Announcement(updateData).save() would do.
UpsertAlwaysInserts(store, nid, u) == Insert(store, nid, u)

\* Announcement.findOneAndUpdate({}, updateData, { upsert: true, new: true }):
\* the first document there is takes the fields of updateData; an empty
\* collection gets a new document.  (updatedAt is no path of the schema, so
\* it is not stored.)
Upsert(store, nid, u) ==
  IF DOMAIN store = {}
  THEN Insert(store, nid, u)
  ELSE LET i == CHOOSE k \in DOMAIN store : \A j \in DOMAIN store : k <= j
       IN [store EXCEPT ![i] = [f \in DOMAIN store[i] \cup DOMAIN u |->
                                 IF f \in DOMAIN u THEN u[f] ELSE store[i][f]]]

\* ---- GET /api/announcement
\* Announcement.findOne().sort({ updatedAt: -1 })
AnnGetOne ==
  /\ rev = "B"
  /\ \E ok \in BOOLEAN :
       annLast' = IF ~ok
                  THEN [kind |-> "get", status |-> 500, body |-> {}]
                  ELSE IF DOMAIN anns = {}
                  THEN [kind |-> "get", status |-> 200, body |-> {Placeholder}]
                  ELSE \* one of the documents, none of which has updatedAt
                       LET i == CHOOSE k \in DOMAIN anns : \A j \in DOMAIN anns : k <= j
                       IN [kind |-> "get", status |-> 200, body |-> {anns[i]}]
  /\ UNCHANGED <<anns, annNextId, now>>

\* ---- POST /api/admin/announcement
\* updateData = { title, description, isActive: isActive === 'true',
\* updatedAt }; if (req.file) updateData.imageUrl = await uploadToImgBB(...)
AnnUpsert ==
  /\ rev = "B"
  /\ \E file \in Files, body \in AnnUpdates, ok \in BOOLEAN :
       LET fields == [title |-> body.title, isActive |-> (body.isActive = "true")]
           u      == IF UploadToImgBB(file) = "url"
                     THEN [title |-> fields.title, isActive |-> fields.isActive,
                           imageUrl |-> "url"]
                     ELSE fields
       IN
       IF UploadToImgBB(file) = "throws" \/ ~ok
       THEN /\ annLast' = [kind |-> "upsert", status |-> 500, body |-> {}]
            /\ UNCHANGED <<anns, annNextId>>
       ELSE /\ annNextId <= MaxAnns
            /\ anns' = Upsert(anns, annNextId, u)
            /\ annNextId' = IF DOMAIN anns = {} THEN annNextId + 1 ELSE annNextId
            /\ annLast' = [kind |-> "upsert", status |-> 200,
                           body |-> {[title |-> fields.title,
                                      isActive |-> fields.isActive,
                                      replaced |-> (DOMAIN anns # {})]}]
  /\ UNCHANGED now

\* The clock, as the announcement handlers see it.
AnnTick ==
  /\ now + TickLen <= MaxNow
  /\ now' = now + TickLen
  /\ annLast' = NoAnnResp
  /\ UNCHANGED <<anns, annNextId>>

\* History: for every query result in flight and for the cached listing, the
\* last instant at which it was what the visibility rule gives.
Track ==
  LET truth == VisibleSet(promos', now')
      Setter == {s \in Slots : reqs[s].pc = "set" /\ reqs'[s].pc = "idle"}
      Max(a, b) == IF a >= b THEN a ELSE b
      carried == IF Setter # {} /\ last'.status = 200 /\ last'.sawOpen
                 THEN resFresh[CHOOSE s \in Setter : TRUE]
                 ELSE IF cache = <<>> THEN 0 ELSE cacheFresh
  IN
  /\ resFresh' = [s \in Slots |->
                    IF reqs'[s].pc # "set" THEN 0
                    ELSE IF reqs'[s].result = truth THEN now'
                    ELSE resFresh[s]]
  /\ cacheFresh' = IF cache' = <<>> THEN 0
                   ELSE IF cache'[1].body = truth THEN now'
                   ELSE carried

Next ==
  \/ \E s \in Slots : GetCacheRead(s) /\ Track /\ UNCHANGED <<annVars, admLast, puts>>
  \/ \E s \in Slots : GetFind(s) /\ Track /\ UNCHANGED <<annVars, admLast, puts>>
  \/ \E s \in Slots : GetCacheSet(s) /\ Track /\ UNCHANGED <<annVars, admLast, puts>>
  \/ \E s \in Slots : Submit(s) /\ Track /\ UNCHANGED <<annVars, admLast, puts>>
  \/ \E s \in Slots : AdminCreate(s) /\ Track /\ UNCHANGED <<annVars, admLast, puts>>
  \/ \E s \in Slots : SetStatus(s) /\ Track /\ UNCHANGED <<annVars, admLast, puts>>
  \/ \E s \in Slots : Edit(s) /\ Track /\ UNCHANGED <<annVars, admLast, puts>>
  \/ \E s \in Slots : Delete(s) /\ Track /\ UNCHANGED <<annVars, admLast, puts>>
  \/ \E s \in Slots : Invalidate(s) /\ Track /\ UNCHANGED <<annVars, admLast, puts>>
  \/ Tick /\ Track /\ UNCHANGED <<annVars, admLast, puts>>
  \/ CacheClose /\ Track /\ UNCHANGED <<annVars, admLast, puts>>

Spec == Init /\ [][Next]_vars

\* The announcement handlers and the clock.
NextAnn ==
  \/ AnnList /\ UNCHANGED <<promoVars, admLast, puts>>
  \/ AnnCreate /\ UNCHANGED <<promoVars, admLast, puts>>
  \/ AnnDelete /\ UNCHANGED <<promoVars, admLast, puts>>
  \/ AnnGetOne /\ UNCHANGED <<promoVars, admLast, puts>>
  \/ AnnUpsert /\ UNCHANGED <<promoVars, admLast, puts>>
  \/ AnnTick /\ UNCHANGED <<promoVars, admLast, puts>>

SpecAnn == Init /\ [][NextAnn]_vars


\* ============================================= requests served one at a time
\* The same routes, each request run from its middleware to its response with
\* no other request in between, on documents that carry createdAt and with
\* the Authorization header, the uploaded file and the addressed id kept in
\* the response record.

\* createdAt: { type: Date, default: Date.now }
Stamp(doc, t) ==
  [title |-> doc.title, start |-> doc.start, end |-> doc.end,
   status |-> doc.status, createdAt |-> t]

\* process.env.ADMIN_PASSWORD, and what a login request may carry.
AdminPassword == "secret"
Passwords == {"secret", "guess", "absent"}

\* req.params.id: an id MongoDB handed out or may hand out, or BadId, a string
\* that is no ObjectId (findById... rejects with a CastError).
BadId == 0
ReqIds == Ids \cup {BadId}

\* Fields an edit body may carry beyond those of EditBodies: <<>> is absent.
FullEditBodies ==
  [title : EditTitles, start : {0}, end : {DayLen}, status : BodyStatuses,
   createdAt : {<<>>, <<TickLen>>}, id : {<<>>, <<1>>}]

\* The bodies of the creating requests that start at 0.
StartingNow(bodies) == {b \in bodies : b.start = 0}

seqFrame == <<rev, now, isOpen, reqs, last, ver, acked, due, resFresh,
              cacheFresh, anns, annNextId, annLast, puts>>

Begin      == started.all < MaxReqs /\ StartRead
BeginWrite == started.all < MaxReqs /\ started.writes < MaxWrites /\ StartWrite

\* The orderings that .sort({ createdAt: 1 }) may give.
SortByCreatedAtAsc(store) ==
  LET n == Cardinality(DOMAIN store)
  IN {f \in [1..n -> DOMAIN store] :
        /\ \A i, j \in 1..n : i # j => f[i] # f[j]
        /\ \A i \in 1..n : \A j \in 1..n :
             i < j => store[f[i]].createdAt <= store[f[j]].createdAt}

\* Every ordering of the stored ids that .sort({ createdAt: -1 }) may give:
\* documents with equal createdAt come in either order.
SortByCreatedAtDesc(store) ==
  LET n == Cardinality(DOMAIN store)
  IN {f \in [1..n -> DOMAIN store] :
        /\ \A i, j \in 1..n : i # j => f[i] # f[j]
        /\ \A i \in 1..n : \A j \in 1..n :
             i < j => store[f[i]].createdAt >= store[f[j]].createdAt}

\* ---- POST /api/admin/login
ReqLogin ==
  /\ Begin
  /\ \E pw \in Passwords :
       LET a == [NoAdmResp EXCEPT !.route = "login", !.password = pw]
       IN admLast' = IF pw = AdminPassword
                     THEN [a EXCEPT !.status = 200,
                                    !.token = [present |-> TRUE, signed |-> TRUE,
                                               iat |-> now]]
                     ELSE [a EXCEPT !.status = 401]
  /\ UNCHANGED <<promos, nextId, cache>>
  /\ UNCHANGED seqFrame

\* ---- GET /api/admin/promotions
\* No try/catch: when find() rejects, nothing is sent (status 0).
ReqAdminList ==
  /\ Begin
  /\ \E hdr \in Headers, ok \in BOOLEAN :
       LET a    == [NoAdmResp EXCEPT !.route = "list", !.hdr = hdr]
           code == Authenticate(hdr, now)
       IN
       IF code # 0
       THEN admLast' = [a EXCEPT !.status = code, !.cause = "auth"]
       ELSE IF ~ok
       THEN admLast' = [a EXCEPT !.cause = "store"]
       ELSE \E f \in SortByCreatedAtDesc(promos) :
              admLast' = [a EXCEPT !.status = 200, !.body = f]
  /\ UNCHANGED <<promos, nextId, cache>>
  /\ UNCHANGED seqFrame

\* ---- GET /api/promotions
ReqGet ==
  /\ Begin
  /\ \E okGet \in BOOLEAN, ok \in BOOLEAN, okSet \in BOOLEAN :
       LET a      == [NoAdmResp EXCEPT !.route = "get"]
           result == FindVisible(promos, Midnight(now))
       IN
       IF isOpen /\ ~okGet
       THEN /\ admLast' = [a EXCEPT !.status = 500, !.cause = "cache"]
            /\ UNCHANGED cache
       ELSE IF isOpen /\ cache # <<>>
       THEN /\ admLast' = [a EXCEPT !.status = 200, !.cause = "hit"]
            /\ UNCHANGED cache
       ELSE IF ~ok
       THEN /\ admLast' = [a EXCEPT !.status = 500, !.cause = "store"]
            /\ UNCHANGED cache
       ELSE IF isOpen /\ ~okSet
       THEN /\ admLast' = [a EXCEPT !.status = 500, !.cause = "cache"]
            /\ UNCHANGED cache
       ELSE /\ admLast' = [a EXCEPT !.status = 200]
            /\ cache' = IF isOpen
                        THEN <<[body |-> result, setAt |-> now, evalAt |-> now,
                                qver |-> ver, setVer |-> ver]>>
                        ELSE cache
  /\ UNCHANGED <<promos, nextId>>
  /\ UNCHANGED seqFrame

\* ---- POST /api/promotions
ReqSubmit ==
  /\ BeginWrite
  /\ \E file \in Files, body \in StartingNow(Bodies), ok \in BOOLEAN :
       LET doc == Stamp(NewSubmission(rev, body), now)
           a   == [NoAdmResp EXCEPT !.route = "submit", !.file = file]
       IN
       IF UploadToImgBB(file) = "throws"
       THEN /\ admLast' = [a EXCEPT !.status = 400, !.cause = "upload"]
            /\ UNCHANGED <<promos, nextId>>
       ELSE IF ~Validates(doc)
       THEN /\ admLast' = [a EXCEPT !.status = 400, !.cause = "validation"]
            /\ UNCHANGED <<promos, nextId>>
       ELSE IF ~ok
       THEN /\ admLast' = [a EXCEPT !.status = 400, !.cause = "store"]
            /\ UNCHANGED <<promos, nextId>>
       ELSE /\ nextId <= MaxPromos
            /\ promos' = Insert(promos, nextId, doc)
            /\ nextId' = nextId + 1
            /\ admLast' = [a EXCEPT !.status = 201, !.id = nextId]
  /\ UNCHANGED cache
  /\ UNCHANGED seqFrame

\* if (redisClient.isOpen) await redisClient.del(...); then the success
\* response.  The store write is already done when the del rejects.
DelAndAnswer(a, okDel) ==
  IF isOpen /\ ~okDel
  THEN /\ UNCHANGED cache
       /\ admLast' = IF rev = "B" /\ a.route = "status"
                     THEN [a EXCEPT !.cause = "cache"]
                     ELSE [a EXCEPT !.status = 500, !.cause = "cache"]
  ELSE /\ cache' = IF isOpen THEN InvalidateKey(cache) ELSE cache
       /\ admLast' = [a EXCEPT !.status = SuccessCode(a.route)]

\* authenticateAdmin answered; the handler is never entered.
Deny(a, code) ==
  /\ admLast' = [a EXCEPT !.status = code, !.cause = "auth"]
  /\ UNCHANGED <<promos, nextId, cache>>

\* The handler's catch: res.status(500).json({ error })
Fail(a, cause) ==
  /\ admLast' = [a EXCEPT !.status = 500, !.cause = cause]
  /\ UNCHANGED <<promos, nextId, cache>>

\* ---- POST /api/admin/promotions
ReqAdminCreate ==
  /\ BeginWrite
  /\ \E hdr \in Headers, file \in Files :
       LET a    == [NoAdmResp EXCEPT !.route = "create", !.hdr = hdr,
                                     !.file = file]
           code == Authenticate(hdr, now)
       IN
       IF code # 0 THEN Deny(a, code)
       ELSE IF UploadToImgBB(file) = "throws" THEN Fail(a, "upload")
       ELSE \E body \in StartingNow(AdminBodies), ok \in BOOLEAN :
              LET doc == Stamp(NewAdminPromotion(rev, body), now)
              IN
              IF ~Validates(doc) THEN Fail(a, "validation")
              ELSE IF ~ok THEN Fail(a, "store")
              ELSE /\ nextId <= MaxPromos
                   /\ promos' = Insert(promos, nextId, doc)
                   /\ nextId' = nextId + 1
                   /\ \E okDel \in BOOLEAN :
                        DelAndAnswer([a EXCEPT !.id = nextId], okDel)
  /\ UNCHANGED seqFrame


\* A rejected promise in a handler: res.status(500) from its catch, or, in
\* the status update of the spreading revision, which has no try/catch, no
\* response at all (status 0).
FailOrHang(a, cause) ==
  IF rev = "B" /\ a.route = "status"
  THEN /\ admLast' = [a EXCEPT !.cause = cause]
       /\ UNCHANGED <<promos, nextId, cache>>
  ELSE Fail(a, cause)

\* ---- PUT /api/admin/promotions/:id
ReqSetStatus ==
  /\ BeginWrite
  /\ \E hdr \in Headers, id \in ReqIds :
       LET a    == [NoAdmResp EXCEPT !.route = "status", !.hdr = hdr, !.id = id,
                                     !.found = (id \in DOMAIN promos)]
           code == Authenticate(hdr, now)
       IN
       IF code # 0 THEN Deny(a, code)
       ELSE IF id = BadId THEN FailOrHang(a, "cast")
       ELSE \E st \in PutStatuses, ok \in BOOLEAN, okDel \in BOOLEAN :
              IF ~ok THEN FailOrHang(a, "store")
              ELSE /\ promos' = UpdateStatus(promos, id, st)
                   /\ UNCHANGED nextId
                   /\ DelAndAnswer(a, okDel)
  /\ UNCHANGED seqFrame

\* { ...req.body } carries createdAt into the update as well.
EditExtra(r, store, id, body) ==
  IF r = "B" /\ id \in DOMAIN store /\ body.createdAt # <<>>
  THEN [store EXCEPT ![id] = [@ EXCEPT !.createdAt = body.createdAt[1]]]
  ELSE store

\* { ...req.body } carries an _id: MongoDB refuses to change the _id of the
\* document it matched.
ChangesId(r, store, id, body) ==
  r = "B" /\ id \in DOMAIN store /\ body.id # <<>> /\ body.id # <<id>>

\* ---- PUT /api/admin/promotions/:id/edit
ReqEdit ==
  /\ BeginWrite
  /\ \E hdr \in Headers, file \in Files, id \in ReqIds :
       LET a    == [NoAdmResp EXCEPT !.route = "edit", !.hdr = hdr, !.id = id,
                                     !.file = file,
                                     !.found = (id \in DOMAIN promos)]
           code == Authenticate(hdr, now)
       IN
       IF code # 0 THEN Deny(a, code)
       ELSE IF UploadToImgBB(file) = "throws" THEN Fail(a, "upload")
       ELSE IF id = BadId THEN Fail(a, "cast")
       ELSE \E body \in FullEditBodies, ok \in BOOLEAN, okDel \in BOOLEAN :
              IF ~ok THEN Fail(a, "store")
              ELSE IF ChangesId(rev, promos, id, body) THEN Fail(a, "immutable")
              ELSE /\ promos' = EditExtra(rev,
                                          ApplyEdit(promos, id, UpdateData(rev, body)),
                                          id, body)
                   /\ UNCHANGED nextId
                   /\ DelAndAnswer(a, okDel)
  /\ UNCHANGED seqFrame

\* ---- DELETE /api/admin/promotions/:id  (server.js 428-436 only)
ReqDelete ==
  /\ rev = "A"
  /\ BeginWrite
  /\ \E hdr \in Headers, id \in ReqIds :
       LET a    == [NoAdmResp EXCEPT !.route = "delete", !.hdr = hdr, !.id = id,
                                     !.found = (id \in DOMAIN promos)]
           code == Authenticate(hdr, now)
       IN
       IF code # 0 THEN Deny(a, code)
       ELSE IF id = BadId THEN Fail(a, "cast")
       ELSE \E ok \in BOOLEAN, okDel \in BOOLEAN :
              IF ~ok THEN Fail(a, "store")
              ELSE /\ promos' = Remove(promos, id)
                   /\ UNCHANGED nextId
                   /\ DelAndAnswer(a, okDel)
  /\ UNCHANGED seqFrame

\* The requests served one at a time, the clock and the Redis connection.
NextAdmin ==
  \/ ReqLogin
  \/ ReqAdminList
  \/ ReqGet
  \/ ReqSubmit
  \/ ReqAdminCreate
  \/ ReqSetStatus
  \/ ReqEdit
  \/ ReqDelete
  \/ Tick /\ admLast' = NoAdmResp /\ UNCHANGED <<resFresh, cacheFresh, annVars, puts>>
  \/ CacheClose /\ admLast' = NoAdmResp /\ UNCHANGED <<resFresh, cacheFresh, annVars, puts>>

SpecAdmin == Init /\ [][NextAdmin]_vars


\* ============================================= concurrent status updates
\* The server starts over a database that already holds one PENDING Promotion.
InitStocked ==
  /\ Booted
  /\ promos = [i \in {1} |-> [title |-> "Sale", start |-> 0, end |-> DayLen,
                              status |-> "PENDING"]]
  /\ nextId = 2

\* Status updates alone, their steps interleaved; puts keeps what each store
\* write asked for.
NextStatus ==
  \/ \E s \in Slots, id \in Ids, st \in PutStatuses, ok \in BOOLEAN :
       /\ PutStatus(s, id, st, ok)
       /\ puts' = IF ok THEN Append(puts, [id |-> id, st |-> st]) ELSE puts
       /\ Track /\ UNCHANGED <<annVars, admLast>>
  \/ \E s \in Slots : Invalidate(s) /\ Track /\ UNCHANGED <<annVars, admLast, puts>>
  \/ CacheClose /\ Track /\ UNCHANGED <<annVars, admLast, puts>>

SpecStocked == InitStocked /\ [][NextStatus]_vars

\* ============================================= properties

\* C1: a GET /promotions that misses the cache, or runs with the cache closed,
\* returns exactly the stored Promotions with status APPROVED and
\* end >= midnight of the current day; start plays no part.
C1_MissReturnsVisibleSet ==
  [][\A s \in Slots :
       /\ (reqs[s].pc = "find" /\ reqs'[s].pc = "set") =>
            /\ \A i \in Ids :
                 i \in DOMAIN reqs'[s].result <=>
                   /\ i \in DOMAIN promos
                   /\ promos[i].status = "APPROVED"
                   /\ promos[i].end >= Midnight(now)
            /\ \A i \in DOMAIN reqs'[s].result :
                 reqs'[s].result[i] = Doc(promos[i])
       /\ (reqs[s].pc = "set" /\ reqs'[s].pc = "idle" /\ last'.status = 200) =>
            /\ last'.source = "store"
            /\ last'.body = reqs[s].result]_vars

\* A miss answered with a Promotion that has not started yet, while another
\* stored Promotion is left out.
C1_Witness ==
  /\ last.kind = "get" /\ last.status = 200 /\ last.source = "store"
  /\ \E i \in DOMAIN last.body : last.body[i].start > now
  /\ \E j \in DOMAIN promos : j \notin DOMAIN last.body

\* C2: the first GET /promotions that starts after an administrative write
\* has answered success returns a listing read from the store after that
\* write (or at least the listing that is true now), not an older one.
C2_NextGetReflectsWrite ==
  (last.kind = "get" /\ last.status = 200 /\ last.need > 0) =>
    \/ last.qver >= last.need
    \/ last.body = VisibleSet(promos, now)

\* C3: when an administrative write answers success with the cache open, no
\* cache entry written before its store write is still there.
C3_InvalidatedBeforeSuccess ==
  (last.kind \in AdminWrites /\ last.status = SuccessCode(last.kind)
     /\ last.sawOpen) =>
    \/ cache = <<>>
    \/ cache[1].setVer >= last.wver

\* A write answered success after its del removed an entry.
C3_Witness ==
  /\ last.kind \in AdminWrites /\ last.status = SuccessCode(last.kind)
  /\ last.sawOpen /\ last.hadEntry

\* C4: the Promotion a public POST /promotions has just created is PENDING,
\* whatever the body carried.
C4_SubmissionIsPending ==
  (last.kind = "submit" /\ last.status = 201) =>
    promos[nextId - 1].status = "PENDING"

\* C5: GET /announcement returns exactly the Announcements with isActive,
\* startDate <= now and endDate >= midnight of the current day.
C5_AnnouncementWindow ==
  (annLast.kind = "list" /\ annLast.status = 200) =>
    annLast.body = {i \in DOMAIN anns : /\ anns[i].isActive
                                        /\ anns[i].startDate <= now
                                        /\ anns[i].endDate >= Midnight(now)}

\* C6: no request is answered 5xx because a cache call failed.
C6_CacheFailureNeverFailsRequest ==
  last.status >= 500 => last.cause # "cache"

\* C7 (as claimed): a listing served from the cache was the true listing at
\* some instant at most TTL seconds before the response.
C7_AtMostTTLStale ==
  last.source = "cache" => now - cacheFresh <= TTL

\* C7 (amended): a listing served from the cache is the entry's listing, the
\* entry was written at most TTL seconds before, and it was the true listing
\* when its query ran, which was no later than the write of the entry.
C7_ServedWithinTTLOfWrite ==
  last.source = "cache" =>
    /\ cache # <<>>
    /\ last.body = cache[1].body
    /\ now - cache[1].setAt <= TTL
    /\ cache[1].evalAt <= cache[1].setAt
    /\ cacheFresh >= cache[1].evalAt

\* An entry served exactly TTL seconds after its write, whose query ran
\* before the write.
C7_Witness ==
  /\ last.source = "cache"
  /\ cache # <<>>
  /\ now - cache[1].setAt = TTL
  /\ cache[1].evalAt < cache[1].setAt

\* C8: the Promotion POST /admin/promotions has just created is APPROVED,
\* whatever status the body carried, and the public query evaluated then
\* returns it whenever its end >= midnight of the current day.
C8_AdminCreateIsApprovedAndListed ==
  [][\A s \in Slots :
       (reqs[s].pc = "idle" /\ reqs'[s].kind = "create" /\ reqs'[s].pc = "del") =>
         /\ nextId \in DOMAIN promos'
         /\ promos'[nextId].status = "APPROVED"
         /\ promos'[nextId].end >= Midnight(now') =>
              nextId \in DOMAIN FindVisible(promos', Midnight(now'))]_vars

\* An admin creation carrying status REJECTED is in flight and a GET that
\* missed the cache has the new Promotion in its result.
C8_Witness ==
  \E s, g \in Slots :
    /\ reqs[s].kind = "create" /\ reqs[s].pc = "del"
    /\ reqs[g].kind = "get" /\ reqs[g].pc = "set"
    /\ (nextId - 1) \in DOMAIN reqs[g].result
    /\ reqs[g].result[nextId - 1].status = "APPROVED"

\* C9: a POST /promotions without a title is answered 400 and changes neither
\* the Promotion collection nor the cache.
C9_NoTitleRejected ==
  [][(started'.writes = started.writes + 1 /\ last'.kind = "submit"
        /\ last'.title = "") =>
       /\ last'.status = 400
       /\ promos' = promos
       /\ nextId' = nextId
       /\ cache' = cache]_vars

\* A submission without a title answered 400 by validation, with a stored
\* Promotion and a cache entry in place.
C9_Witness ==
  /\ last.kind = "submit" /\ last.title = "" /\ last.status = 400
  /\ last.cause = "validation"
  /\ promos # EmptyBody
  /\ cache # <<>>

\* C10: every stored Promotion's status is PENDING, APPROVED or REJECTED.
C10_StatusWithinEnum ==
  \A i \in DOMAIN promos : promos[i].status \in StatusEnum


\* C11: a request to an admin route other than login is answered 401 when it
\* carries no token and 403 when its token is not signed with the secret or
\* has expired, and then the Promotion collection and the cache are as they
\* were; a login with a wrong password is answered 401 and carries no token.
C11_DeniedWithoutEffect ==
  [][LET a       == admLast'
         guarded == a.route \in {"list", "create", "status", "edit", "delete"}
         valid   == a.hdr.signed /\ now < a.hdr.iat + TokenLife
     IN
     /\ (guarded /\ ~a.hdr.present) =>
          /\ a.status = 401
          /\ UNCHANGED <<promos, nextId, cache>>
     /\ (guarded /\ a.hdr.present /\ ~valid) =>
          /\ a.status = 403
          /\ UNCHANGED <<promos, nextId, cache>>
     /\ (a.route = "login" /\ a.password # AdminPassword) =>
          /\ a.status = 401
          /\ ~a.token.present]_vars

\* A request with an expired token is turned away while the collection holds
\* a Promotion and the cache holds a listing.
C11_Witness ==
  /\ admLast.route \in {"create", "status", "edit", "delete"}
  /\ admLast.status = 403
  /\ admLast.hdr.signed
  /\ promos # EmptyBody
  /\ cache # <<>>


\* C12: when the upload of the image a create or edit request carries fails,
\* the request is answered 400 or 500 and the Promotion collection and the
\* cache are as they were before the request.
C12_FailedUploadAbortsWrite ==
  [][LET a == admLast'
     IN (a.route \in {"submit", "create", "edit"} /\ a.file = "bad"
           /\ a.cause # "auth") =>
          /\ a.status \in {400, 500}
          /\ a.cause = "upload"
          /\ UNCHANGED <<promos, nextId, cache>>]_vars

\* An edit whose upload failed, answered 500 while the collection holds a
\* Promotion and the cache holds a listing.
C12_Witness ==
  /\ admLast.route = "edit" /\ admLast.file = "bad"
  /\ admLast.status = 500 /\ admLast.cause = "upload"
  /\ admLast.found
  /\ cache # <<>>


\* C13: a status update, edit or delete addressed to a malformed id or to an
\* id without a document is answered with a not-found outcome (404), unless
\* authentication, the upload, the store or the cache failed first.
C13_MissingIdIsNotFound ==
  (/\ admLast.route \in {"status", "edit", "delete"}
   /\ admLast.cause \notin {"auth", "upload", "store", "cache"}
   /\ ~admLast.found) =>
    admLast.status = 404


\* C14: an edit leaves the status of every stored Promotion as it was,
\* whatever the request body carries.
C14_EditKeepsStatus ==
  [][admLast'.route = "edit" =>
       /\ DOMAIN promos' = DOMAIN promos
       /\ \A i \in DOMAIN promos : promos'[i].status = promos[i].status]_vars

\* C15: a status update or an edit leaves the id and the createdAt of every
\* stored Promotion as they were, whatever the request carries.
C15_IdAndCreatedAtKept ==
  [][admLast'.route \in {"status", "edit"} =>
       /\ DOMAIN promos' = DOMAIN promos
       /\ \A i \in DOMAIN promos : promos'[i].createdAt = promos[i].createdAt]_vars


\* C16: a Promotion leaves the collection only through a delete request, never
\* because the clock advances, and the admin listing returns every stored
\* Promotion, whatever its status and its end, newest createdAt first.
C16_ListingCompleteAndNoExpiry ==
  [][/\ (DOMAIN promos \ DOMAIN promos' # {}) =>
          /\ admLast'.route = "delete"
          /\ DOMAIN promos \ DOMAIN promos' = {admLast'.id}
     /\ now' # now => promos' = promos
     /\ (admLast'.route = "list" /\ admLast'.status = 200) =>
          LET f == admLast'.body
          IN /\ DOMAIN f = 1..Cardinality(DOMAIN promos')
             /\ {f[k] : k \in DOMAIN f} = DOMAIN promos'
             /\ \A i \in DOMAIN f : \A j \in DOMAIN f :
                  i < j => promos'[f[i]].createdAt >= promos'[f[j]].createdAt]_vars

\* A listing of two Promotions, the later created first, one of them not
\* APPROVED and one of them ended before today.
C16_Witness ==
  /\ admLast.route = "list" /\ admLast.status = 200
  /\ DOMAIN admLast.body = 1..2
  /\ promos[admLast.body[1]].createdAt > promos[admLast.body[2]].createdAt
  /\ \E i \in DOMAIN promos : promos[i].status # "APPROVED"
  /\ \E i \in DOMAIN promos : promos[i].end < Midnight(now)


\* C17: with status updates running concurrently, the status of a Promotion is
\* the one asked for by the update whose store write was applied last, and a
\* status update is answered anything but success only when its store call or
\* its cache call failed, never because of another update.
C17_LastStatusWriteWins ==
  /\ (puts # <<>> /\ puts[Len(puts)].id \in DOMAIN promos) =>
       promos[puts[Len(puts)].id].status = puts[Len(puts)].st
  /\ (last.kind = "status" /\ last.status # 200) =>
       last.cause \in {"store", "cache"}

\* Two updates of the same Promotion to different statuses overlapped: the
\* first to write answered after the second had answered, both with success.
C17_Witness ==
  /\ Len(puts) = 2
  /\ puts[1].id = 1 /\ puts[2].id = 1
  /\ puts[1].st # puts[2].st
  /\ last.kind = "status" /\ last.status = 200 /\ last.wver = 1
  /\ acked = 2
  /\ \A s \in Slots : Free(s)
  /\ promos[1].status = puts[2].st


\* C18: in the revision with the singleton announcement the collection never
\* holds more than one document; a successful POST /admin/announcement leaves
\* exactly one, carrying the title and isActive of the request; and
\* GET /announcement returns that document, or the placeholder with
\* isActive false when there is none.
C18_SingletonAnnouncement ==
  [][rev = "B" =>
       /\ Cardinality(DOMAIN anns') <= 1
       /\ (annLast'.kind = "upsert" /\ annLast'.status = 200) =>
            /\ Cardinality(DOMAIN anns') = 1
            /\ \A i \in DOMAIN anns' : \A r \in annLast'.body :
                 /\ anns'[i].title = r.title
                 /\ anns'[i].isActive = r.isActive
                 /\ DOMAIN anns' = (IF r.replaced THEN DOMAIN anns ELSE {annNextId})
       /\ (annLast'.kind = "get" /\ annLast'.status = 200) =>
            annLast'.body = IF DOMAIN anns' = {} THEN {[isActive |-> FALSE]}
                            ELSE {anns'[i] : i \in DOMAIN anns'}]_vars

\* A second POST has replaced the fields of the one document, which keeps the
\* image of the first.
C18_Witness ==
  /\ rev = "B"
  /\ annLast.kind = "upsert" /\ annLast.status = 200
  /\ \E r \in annLast.body : r.replaced /\ r.title = "Deal" /\ ~r.isActive
  /\ DOMAIN anns = {1}
  /\ DOMAIN anns[1] = {"title", "isActive", "imageUrl"}
  /\ anns[1].title = "Deal"


\* C19: a request whose store call failed is answered 500, on every route.
C19_StoreFailureIs500 ==
  last.cause = "store" => last.status = 500

\* C20: once no request is in flight, a cache entry, if there is one, holds a
\* listing that was read from the store after every administrative write that
\* has answered success, or at least the listing that is true now.
C20_NoStaleEntryAfterInvalidation ==
  ((\A s \in Slots : Free(s)) /\ cache # <<>>) =>
    \/ cache[1].qver >= acked
    \/ cache[1].body = VisibleSet(promos, now)

\* C21: every request a route has taken is answered: when its handler has
\* run to its end, a response has been sent, also when the store call inside
\* it rejected (a malformed id in a status update, a store error in the admin
\* listing).  A handler that ends with no response sent (status 0) sends none
\* later, so the request is never answered.
C21_EveryRequestAnswered ==
  admLast.route # "none" => admLast.status # 0

====
